---- MODULE Spec2Model ----
(***************************************************************************)
(* A model of merge_excel_data (src/merge_excel.py): the reconciliation of *)
(* two advertising reports into one full-day dataset.                      *)
(*                                                                         *)
(* A DataFrame is a sequence of rows plus a sequence of column names; a    *)
(* row is a function from column names to cells.  Column names are ASCII   *)
(* stand-ins for the source's names:                                       *)
(*   "date" = '日期', "book_id" = '书籍ID', "channel_id" = '渠道ID',       *)
(*   "ad_group_id" = 'Ad Group ID', "ad_id" = 'Ad ID', "ad_name" =         *)
(*   'Ad Name', "spend" = '投放花费' (a count-like metric), "roas" (a      *)
(*   ratio-like metric), "group_id" and "clean_date" (bookkeeping).        *)
(* A string the code inspects character by character (identifier text,     *)
(* composite keys, metric names) is a sequence of one-character strings.   *)
(***************************************************************************)
EXTENDS Integers, Sequences, FiniteSets, TLC

VARIABLES
    pc,                 \* position in merge_excel_data
    err,                \* the exception that ended the run, or "none"
    table1,             \* rows of table1 (pd.read_excel(table1_path))
    table1_columns,     \* table1.columns
    combined_table,     \* rows of combined_table
    combined_columns,   \* combined_table.columns
    table1_first,       \* table1 rows dated first_date            (A1)
    combined_first,     \* combined_table rows dated first_date    (B1)
    combined_second,    \* combined_table rows dated second_date   (B2 = S)
    numeric_cols,       \* metric columns found in combined_table
    midnight_to_3pm_df, \* rows of the derived dataset             (M)
    full_day_data,      \* the reconciled dataset: [cols, rows]
    target_columns,     \* the target_columns argument: [none, idx]
    output_path,        \* TRUE iff an output_path was given
    written,            \* the output artifact: [exists, cols, rows]
    returned            \* the returned DataFrame: [cols, rows]

vars == <<pc, err, table1, table1_columns, combined_table, combined_columns,
          table1_first, combined_first, combined_second, numeric_cols,
          midnight_to_3pm_df, full_day_data, target_columns, output_path,
          written, returned>>

----------------------------------------------------------------------------
(* Bounds of the model *)

MaxTable1Rows == 2
MaxCombinedRows == 3
MaxSchemaRows == 1

(* Dates are day numbers; first_date defaults to '2025-05-20' and          *)
(* second_date to the day after.                                           *)
first_dt == 20
second_dt == first_dt + 1

----------------------------------------------------------------------------
(* Generic helpers *)

SeqsUpTo(S, n) == UNION {[1..k -> S] : k \in 0..n}

Range(s) == {s[i] : i \in 1..Len(s)}

Restrict(f, S) == [x \in S |-> f[x]]

RECURSIVE Perms(_)
Perms(S) ==
    IF S = {} THEN {<<>>}
    ELSE UNION {{<<x>> \o p : p \in Perms(S \ {x})} : x \in S}

----------------------------------------------------------------------------
(* Text: str(), str.strip() and '_'.join of create_group_id *)

DigitChar == <<"0", "1", "2", "3", "4", "5", "6", "7", "8", "9">>

RECURSIVE Digits(_)
Digits(n) ==
    IF n < 10 THEN <<DigitChar[n + 1]>>
    ELSE Digits(n \div 10) \o <<DigitChar[(n % 10) + 1]>>

(* An identifier cell is an int, a float holding a whole number (what a    *)
(* numeric column with an empty cell is read as) or text.                  *)
IntCell(n) == [k |-> "int", n |-> n, s |-> <<>>]
FloatCell(n) == [k |-> "float", n |-> n, s |-> <<>>]
TextCell(s) == [k |-> "text", n |-> 0, s |-> s]

AsStr(cell) ==
    CASE cell.k = "int" -> Digits(cell.n)
      [] cell.k = "float" -> Digits(cell.n) \o <<".", "0">>
      [] cell.k = "text" -> cell.s

Whitespace == {" ", "\t"}

RECURSIVE LStrip(_)
LStrip(s) ==
    IF s # <<>> /\ Head(s) \in Whitespace THEN LStrip(Tail(s)) ELSE s

RECURSIVE RStrip(_)
RStrip(s) ==
    IF s # <<>> /\ s[Len(s)] \in Whitespace
    THEN RStrip(SubSeq(s, 1, Len(s) - 1))
    ELSE s

Strip(s) == RStrip(LStrip(s))

RECURSIVE Join(_, _)
Join(parts, sep) ==
    IF Len(parts) = 0 THEN <<>>
    ELSE IF Len(parts) = 1 THEN parts[1]
    ELSE parts[1] \o <<sep>> \o Join(Tail(parts), sep)

grouping_columns == <<"book_id", "channel_id", "ad_group_id", "ad_id">>

NormalizeId(cell) == Strip(AsStr(cell))

create_group_id(row) ==
    Join([i \in 1..Len(grouping_columns) |->
              NormalizeId(row[grouping_columns[i]])], "_")

----------------------------------------------------------------------------
(* Dates: a date cell is 'YYYY-MM-DD' with or without a '(Tue)' suffix *)

DateCell(day, deco) == [day |-> day, deco |-> deco]

extract_date(cell) == DateCell(cell.day, FALSE)

to_datetime(cell) == cell.day

second_date_display == DateCell(second_dt, TRUE)

output_date_display == DateCell(second_dt + 1, TRUE)

----------------------------------------------------------------------------
(* Input files *)

InputColumns ==
    <<"date", "book_id", "channel_id", "ad_group_id", "ad_id", "ad_name",
      "spend", "roas">>

(* Two advertising line-items.  Table 1 stores identifiers as numbers, the *)
(* combined table stores some of them as text with stray blanks or tabs.   *)
EntityA == <<IntCell(1), IntCell(12), IntCell(3), IntCell(4)>>
EntityA_Text ==
    <<IntCell(1), TextCell(<<"1", "2", "\t">>), IntCell(3),
      TextCell(<<" ", "4">>)>>
EntityB == <<IntCell(2), IntCell(12), IntCell(3), IntCell(4)>>

Metrics(spend, roas) == [spend |-> spend, roas |-> roas]

Datum(ids, day, deco, m) == [ids |-> ids, date |-> DateCell(day, deco), m |-> m]

(* Table 1 writes plain dates, the combined table adds the weekday. *)
Table1Data ==
    {Datum(EntityA, first_dt, FALSE, Metrics(1, 2)),
     Datum(EntityA, first_dt, FALSE, Metrics(3, 1)),
     Datum(EntityB, first_dt, FALSE, Metrics(1, 2)),
     Datum(EntityA, second_dt, FALSE, Metrics(1, 2))}

CombinedData ==
    {Datum(EntityA_Text, first_dt, TRUE, Metrics(2, 2)),
     Datum(EntityA_Text, first_dt, TRUE, Metrics(-1, 1)),
     Datum(EntityB, first_dt, TRUE, Metrics(2, 2)),
     Datum(EntityA_Text, second_dt, TRUE, Metrics(2, 2)),
     Datum(EntityB, second_dt, TRUE, Metrics(-1, 1))}

(* One row of a sheet; ad_name is descriptive text, distinct on every row. *)
MkRow(file, i, d) ==
    [date |-> d.date,
     book_id |-> d.ids[1], channel_id |-> d.ids[2],
     ad_group_id |-> d.ids[3], ad_id |-> d.ids[4],
     ad_name |-> <<file, i>>,
     spend |-> d.m.spend, roas |-> d.m.roas]

MkTable(file, data) == [i \in 1..Len(data) |-> MkRow(file, i, data[i])]

NoFrame == [cols |-> <<>>, rows |-> <<>>]
NoTargets == [none |-> TRUE, idx |-> <<>>]
NotWritten == [exists |-> FALSE, cols |-> <<>>, rows |-> <<>>]

InitWork ==
    /\ pc = "start"
    /\ err = "none"
    /\ table1_first = <<>>
    /\ combined_first = <<>>
    /\ combined_second = <<>>
    /\ numeric_cols = <<>>
    /\ midnight_to_3pm_df = <<>>
    /\ full_day_data = NoFrame
    /\ target_columns = NoTargets
    /\ output_path = FALSE
    /\ written = NotWritten
    /\ returned = NoFrame

Init ==
    /\ InitWork
    /\ table1_columns = InputColumns
    /\ combined_columns = InputColumns
    /\ \E d \in SeqsUpTo(Table1Data, MaxTable1Rows) :
           table1 = MkTable("table1", d)
    /\ \E d \in SeqsUpTo(CombinedData, MaxCombinedRows) :
           combined_table = MkTable("combined", d)

----------------------------------------------------------------------------
(* Lines 49-88: read the files, add group_id and clean_date *)

Raise(e) ==
    /\ pc' = "error"
    /\ err' = e
    /\ UNCHANGED <<table1, table1_columns, combined_table, combined_columns,
                   table1_first, combined_first, combined_second,
                   numeric_cols, midnight_to_3pm_df, full_day_data,
                   target_columns, output_path, written, returned>>

HasColumns(cols, needed) == \A c \in needed : c \in Range(cols)

AddKeyAndDate(row) ==
    [c \in DOMAIN row \cup {"group_id", "clean_date"} |->
        IF c = "group_id" THEN create_group_id(row)
        ELSE IF c = "clean_date" THEN to_datetime(extract_date(row["date"]))
        ELSE row[c]]

AssignKeys ==
    /\ pc = "start"
    /\ IF /\ HasColumns(table1_columns, Range(grouping_columns) \cup {"date"})
          /\ HasColumns(combined_columns,
                        Range(grouping_columns) \cup {"date"})
       THEN /\ table1' = [i \in DOMAIN table1 |-> AddKeyAndDate(table1[i])]
            /\ combined_table' =
                   [i \in DOMAIN combined_table |->
                       AddKeyAndDate(combined_table[i])]
            /\ table1_columns' = table1_columns \o <<"group_id", "clean_date">>
            /\ combined_columns' =
                   combined_columns \o <<"group_id", "clean_date">>
            /\ pc' = "keyed"
            /\ UNCHANGED <<err, table1_first, combined_first, combined_second,
                           numeric_cols, midnight_to_3pm_df, full_day_data,
                           target_columns, output_path, written, returned>>
       ELSE Raise("KeyError")

----------------------------------------------------------------------------
(* Lines 90-127: partition by date, find the numeric columns *)

FilterDate(rows, dt) == SelectSeq(rows, LAMBDA r : r["clean_date"] = dt)

non_numeric_cols ==
    {"date", "clean_date", "group_id", "book_id", "channel_id", "ad_name",
     "ad_group_id", "ad_id"}

(* The input columns whose cells are all numbers (is_numeric_dtype). *)
NumericDtype == {"spend", "roas"}

NumericColumns(cols) ==
    SelectSeq(cols, LAMBDA c : c \notin non_numeric_cols /\ c \in NumericDtype)

Partition ==
    /\ pc = "keyed"
    /\ table1_first' = FilterDate(table1, first_dt)
    /\ combined_first' = FilterDate(combined_table, first_dt)
    /\ combined_second' = FilterDate(combined_table, second_dt)
    /\ numeric_cols' = NumericColumns(combined_columns)
    /\ pc' = "filtered"
    /\ UNCHANGED <<err, table1, table1_columns, combined_table,
                   combined_columns, midnight_to_3pm_df, full_day_data,
                   target_columns, output_path, written, returned>>

----------------------------------------------------------------------------
(* Lines 129-169: the derived midnight-to-3pm dataset *)

KeySet(rows) == {rows[i]["group_id"] : i \in 1..Len(rows)}

RowsWithKey(rows, k) == SelectSeq(rows, LAMBDA r : r["group_id"] = k)

FirstRowWithKey(rows, k) == RowsWithKey(rows, k)[1]

LastRowWithKey(rows, k) ==
    LET m == RowsWithKey(rows, k) IN m[Len(m)]

(* The keys of a dict filled row by row, in insertion order. *)
RECURSIVE KeysInOrder(_)
KeysInOrder(rows) ==
    IF rows = <<>> THEN <<>>
    ELSE LET k == Head(rows)["group_id"]
         IN  <<k>> \o KeysInOrder(
                 SelectSeq(Tail(rows), LAMBDA r : r["group_id"] # k))

(* table1_values / combined_first_values: a later row with the same key    *)
(* overwrites the entry of an earlier one.                                 *)
ValuesByKey(rows, ncols) ==
    [k \in KeySet(rows) |-> Restrict(LastRowWithKey(rows, k), Range(ncols))]

(* The metric names, as the characters col.lower() is searched in. *)
LowerChars(col) ==
    CASE col = "spend" -> <<"s", "p", "e", "n", "d">>
      [] col = "roas" -> <<"r", "o", "a", "s">>
      [] OTHER -> <<>>

RatioMarkers ==
    {<<"r", "a", "t", "e">>, <<"r", "a", "t", "i", "o">>,
     <<"r", "o", "a", "s">>}

Contains(s, sub) ==
    \E i \in 1..(Len(s) - Len(sub) + 1) : SubSeq(s, i, i + Len(sub) - 1) = sub

RatioColumns ==
    {c \in NumericDtype : \E m \in RatioMarkers : Contains(LowerChars(c), m)}

Max0(v) == IF v > 0 THEN v ELSE 0

FloorAtZero_Signed(col, v) == v

FloorAtZero(col, v) == IF col \notin RatioColumns THEN Max0(v) ELSE v

DeriveRow(group_id, first_rows, table1_values, combined_values, ncols) ==
    LET base == FirstRowWithKey(first_rows, group_id)
        new_row == [base EXCEPT !["date"] = second_date_display,
                                !["clean_date"] = second_dt]
    IN  IF group_id \in DOMAIN table1_values
        THEN [c \in DOMAIN new_row |->
                 IF c \in Range(ncols)
                 THEN FloorAtZero(c, combined_values[group_id][c]
                                      - table1_values[group_id][c])
                 ELSE new_row[c]]
        ELSE new_row

DeriveRows_DropUnmatched(first_rows, t1_rows, ncols) ==
    LET t1v == ValuesByKey(t1_rows, ncols)
        cfv == ValuesByKey(first_rows, ncols)
        ks == SelectSeq(KeysInOrder(first_rows), LAMBDA k : k \in DOMAIN t1v)
    IN  [i \in 1..Len(ks) |-> DeriveRow(ks[i], first_rows, t1v, cfv, ncols)]

DeriveRows(first_rows, t1_rows, ncols) ==
    LET t1v == ValuesByKey(t1_rows, ncols)
        cfv == ValuesByKey(first_rows, ncols)
        ks == KeysInOrder(first_rows)
    IN  [i \in 1..Len(ks) |-> DeriveRow(ks[i], first_rows, t1v, cfv, ncols)]

(* row[col] for col in numeric_cols, on every row of the partition *)
RowsHaveColumns(rows, ncols) ==
    \A i \in 1..Len(rows) : Range(ncols) \subseteq DOMAIN rows[i]

Derive ==
    /\ pc = "filtered"
    /\ IF /\ RowsHaveColumns(table1_first, numeric_cols)
          /\ RowsHaveColumns(combined_first, numeric_cols)
       THEN /\ midnight_to_3pm_df' =
                   DeriveRows(combined_first, table1_first, numeric_cols)
            /\ pc' = "derived"
            /\ UNCHANGED <<err, table1, table1_columns, combined_table,
                           combined_columns, table1_first, combined_first,
                           combined_second, numeric_cols, full_day_data,
                           target_columns, output_path, written, returned>>
       ELSE Raise("KeyError")

----------------------------------------------------------------------------
(* Lines 174-297: union by key, summing the rows both datasets hold *)

CombineRow_FromSecond(midnight_row, second_row, ncols) ==
    [c \in DOMAIN second_row |->
        IF c \in Range(ncols) /\ c \in DOMAIN midnight_row
        THEN midnight_row[c] + second_row[c]
        ELSE second_row[c]]

CombineRow_NoSum(midnight_row, second_row, ncols) == midnight_row

CombineRow(midnight_row, second_row, ncols) ==
    [c \in DOMAIN midnight_row |->
        IF c \in Range(ncols) /\ c \in DOMAIN second_row
        THEN midnight_row[c] + second_row[c]
        ELSE midnight_row[c]]

common_group_ids(m_rows, s_rows) == KeySet(m_rows) \cap KeySet(s_rows)
only_in_midnight(m_rows, s_rows) == KeySet(m_rows) \ KeySet(s_rows)
only_in_second(m_rows, s_rows) == KeySet(s_rows) \ KeySet(m_rows)

UnionRows_DropSecondOnly(m_rows, s_rows, ncols, order) ==
    SelectSeq(m_rows,
              LAMBDA r : r["group_id"] \in only_in_midnight(m_rows, s_rows))
    \o [i \in 1..Len(order) |->
           CombineRow(FirstRowWithKey(m_rows, order[i]),
                      FirstRowWithKey(s_rows, order[i]), ncols)]

(* pd.concat of the three parts; `order` is the order in which the set     *)
(* common_group_ids is iterated.                                           *)
UnionRows(m_rows, s_rows, ncols, order) ==
    SelectSeq(m_rows,
              LAMBDA r : r["group_id"] \in only_in_midnight(m_rows, s_rows))
    \o SelectSeq(s_rows,
                 LAMBDA r : r["group_id"] \in only_in_second(m_rows, s_rows))
    \o [i \in 1..Len(order) |->
           CombineRow(FirstRowWithKey(m_rows, order[i]),
                      FirstRowWithKey(s_rows, order[i]), ncols)]

EmptyCase_BothFirst(m_rows, s_rows, cols) ==
    IF m_rows = <<>> /\ s_rows = <<>> THEN NoFrame
    ELSE IF m_rows = <<>> THEN [cols |-> cols, rows |-> s_rows]
    ELSE [cols |-> cols, rows |-> m_rows]

(* Lines 269-279; the third branch is taken by no input. *)
EmptyCase(m_rows, s_rows, cols) ==
    IF m_rows = <<>> THEN [cols |-> cols, rows |-> s_rows]
    ELSE IF s_rows = <<>> THEN [cols |-> cols, rows |-> m_rows]
    ELSE NoFrame

Union ==
    /\ pc = "derived"
    /\ \E order \in Perms(common_group_ids(midnight_to_3pm_df,
                                           combined_second)) :
         LET frame ==
                 IF midnight_to_3pm_df # <<>> /\ combined_second # <<>>
                 THEN [cols |-> combined_columns,
                       rows |-> UnionRows(midnight_to_3pm_df, combined_second,
                                          numeric_cols, order)]
                 ELSE EmptyCase(midnight_to_3pm_df, combined_second,
                                combined_columns)
         IN  \* line 295: full_day_data['group_id'].nunique()
             IF "group_id" \in Range(frame.cols)
             THEN /\ full_day_data' = frame
                  /\ pc' = "unioned"
                  /\ UNCHANGED <<err, table1, table1_columns, combined_table,
                                 combined_columns, table1_first,
                                 combined_first, combined_second,
                                 numeric_cols, midnight_to_3pm_df,
                                 target_columns, output_path, written,
                                 returned>>
             ELSE Raise("KeyError")

----------------------------------------------------------------------------
(* Lines 438-513: write the output artifact, return the DataFrame *)

MaxIndex == 10

TargetChoices ==
    {NoTargets}
    \cup {[none |-> FALSE, idx |-> s] :
             s \in {<<0, 6>>, <<6, MaxIndex>>, <<MaxIndex>>, <<8>>, <<-1>>}}

(* The output_path and target_columns arguments of a run; without an       *)
(* output_path nothing is written, whatever the target_columns.            *)
RunArguments ==
    {[path |-> TRUE, tc |-> tc] : tc \in TargetChoices}
    \cup {[path |-> FALSE, tc |-> NoTargets]}

DropBookkeeping_KeepKey(cols) == SelectSeq(cols, LAMBDA c : c # "clean_date")

DropBookkeeping(cols) ==
    SelectSeq(cols, LAMBDA c : c \notin {"clean_date", "group_id"})

ReorderColumns(original_columns, cols) ==
    SelectSeq(original_columns, LAMBDA c : c \in Range(cols))

ValidIndices(idx, n) == SelectSeq(idx, LAMBDA i : i < n)

(* DataFrame.iloc position to a 1-based position: negative counts from    *)
(* the end.                                                                *)
ILoc(i, n) == IF i < 0 THEN n + i + 1 ELSE i + 1

SelectColumns_All(cols, tc) == cols

SelectColumns(cols, tc) ==
    IF tc.none THEN cols
    ELSE LET valid_indices == ValidIndices(tc.idx, Len(cols))
         IN  IF Len(valid_indices) > 0
             THEN [j \in 1..Len(valid_indices) |->
                      cols[ILoc(valid_indices[j], Len(cols))]]
             ELSE cols

(* output_data['日期'] = ...: overwrites the column, or adds it last *)
WithDateColumn(cols) ==
    IF "date" \in Range(cols) THEN cols ELSE Append(cols, "date")

id_columns == {"channel_id", "ad_group_id", "ad_id"}

(* Lines 486-495: identifier cells holding a number are stored as text *)
ExcelCell(c, v) ==
    IF c \in id_columns /\ v.k \in {"int", "float"}
    THEN TextCell(Digits(v.n))
    ELSE v

OutputFrame(frame, original_columns, tc) ==
    LET output_columns ==
            ReorderColumns(original_columns, DropBookkeeping(frame.cols))
        kept == WithDateColumn(SelectColumns(output_columns, tc))
    IN  [exists |-> TRUE,
         cols |-> kept,
         rows |-> [i \in 1..Len(frame.rows) |->
                      [c \in Range(kept) |->
                          IF c = "date" THEN output_date_display
                          ELSE ExcelCell(c, frame.rows[i][c])]]]

ReturnFrame_Stamped(frame, tc) ==
    IF frame.rows # <<>> /\ frame.cols # <<>>
    THEN LET kept == SelectColumns(frame.cols, tc)
         IN  [cols |-> kept,
              rows |-> [i \in 1..Len(frame.rows) |->
                           [c \in Range(kept) |->
                               IF c = "date" THEN output_date_display
                               ELSE frame.rows[i][c]]]]
    ELSE NoFrame

ReturnFrame(frame, tc) ==
    IF frame.rows # <<>> /\ frame.cols # <<>>
    THEN LET kept == SelectColumns(frame.cols, tc)
         IN  [cols |-> kept,
              rows |-> [i \in 1..Len(frame.rows) |->
                           Restrict(frame.rows[i], Range(kept))]]
    ELSE NoFrame

SaveAndReturn ==
    /\ pc = "unioned"
    /\ \E args \in RunArguments :
         /\ output_path' = args.path
         /\ target_columns' = args.tc
         /\ written' =
                IF /\ args.path
                   /\ full_day_data.rows # <<>>
                   /\ full_day_data.cols # <<>>
                THEN OutputFrame(full_day_data, combined_columns, args.tc)
                ELSE written
         /\ returned' = ReturnFrame(full_day_data, args.tc)
    /\ pc' = "done"
    /\ UNCHANGED <<err, table1, table1_columns, combined_table,
                   combined_columns, table1_first, combined_first,
                   combined_second, numeric_cols, midnight_to_3pm_df,
                   full_day_data>>

----------------------------------------------------------------------------

Next == AssignKeys \/ Partition \/ Derive \/ Union \/ SaveAndReturn

(* Complete sheets: every run of merge_excel_data on well-formed input *)
Spec == Init /\ [][Next]_vars

----------------------------------------------------------------------------
(* Sheets that may lack a column *)

WithoutColumns(cols, missing) == SelectSeq(cols, LAMBDA c : c \notin missing)

DropColumns(rows, missing) ==
    [i \in 1..Len(rows) |-> Restrict(rows[i], DOMAIN rows[i] \ missing)]

MissingChoices == {{}, {"spend"}, {"book_id"}, {"date"}}

InitSchema ==
    /\ InitWork
    /\ \E miss1 \in MissingChoices, missC \in MissingChoices :
         /\ table1_columns = WithoutColumns(InputColumns, miss1)
         /\ combined_columns = WithoutColumns(InputColumns, missC)
         /\ \E d \in SeqsUpTo(Table1Data, MaxSchemaRows) :
                table1 = DropColumns(MkTable("table1", d), miss1)
         /\ \E d \in SeqsUpTo(CombinedData, MaxSchemaRows + 1) :
                combined_table = DropColumns(MkTable("combined", d), missC)

SpecSchema == InitSchema /\ [][Next]_vars

----------------------------------------------------------------------------
(* create_group_id on its own: one record per sheet, every identifier      *)
(* field drawn from numbers and text, with and without the separator       *)

IdCells ==
    {IntCell(1), FloatCell(1), TextCell(<<" ", "1", "\t">>),
     TextCell(<<"1", "_", "1">>)}

KeyData(ids, d) == Datum(ids, d, TRUE, Metrics(2, 2))

InitKey ==
    /\ InitWork
    /\ table1_columns = InputColumns
    /\ combined_columns = InputColumns
    /\ \E a \in [1..4 -> IdCells] :
           table1 = MkTable("table1", <<KeyData(a, first_dt)>>)
    /\ \E b \in [1..4 -> IdCells] :
           combined_table = MkTable("combined", <<KeyData(b, first_dt)>>)

SpecKey == InitKey /\ [][AssignKeys]_vars

----------------------------------------------------------------------------
(* Two line-items reported on both dates: the combined table holds a       *)
(* first_date and a second_date row of each, so that the set               *)
(* common_group_ids has two keys to iterate over                           *)

ReportedMetrics == {Metrics(2, 2), Metrics(-1, 1)}

InitOrder ==
    /\ InitWork
    /\ table1_columns = InputColumns
    /\ combined_columns = InputColumns
    /\ \E d \in SeqsUpTo(Table1Data, MaxTable1Rows) :
           table1 = MkTable("table1", d)
    /\ \E m \in [1..4 -> ReportedMetrics] :
           combined_table =
               MkTable("combined",
                       <<Datum(EntityA_Text, first_dt, TRUE, m[1]),
                         Datum(EntityB, first_dt, TRUE, m[2]),
                         Datum(EntityA_Text, second_dt, TRUE, m[3]),
                         Datum(EntityB, second_dt, TRUE, m[4])>>)

SpecOrder == InitOrder /\ [][Next]_vars

----------------------------------------------------------------------------
(* Properties *)

A1 == table1_first
B1 == combined_first
S == combined_second
M == midnight_to_3pm_df

Derived == pc \in {"derived", "unioned", "done"}
Unioned == pc \in {"unioned", "done"}

Relabeled(row) ==
    [row EXCEPT !["date"] = DateCell(second_dt, TRUE),
                !["clean_date"] = second_dt]

CountColumns == {c \in Range(numeric_cols) : c \notin {"roas"}}

\* C1, as stated: a record of B1 whose key has no match in A1 is dropped;
\* the derived dataset M holds no record with that key.
C1_UnmatchedDropped ==
    Derived => \A k \in KeySet(B1) \ KeySet(A1) : k \notin KeySet(M)

\* C1, amended: a key of B1 with no match in A1 is carried into M as exactly
\* one record, the first B1 record of that key with its raw values, only the
\* date relabeled to second_date.
C1_UnmatchedCarried ==
    Derived =>
        \A k \in KeySet(B1) \ KeySet(A1) :
            RowsWithKey(M, k) = <<Relabeled(FirstRowWithKey(B1, k))>>

C1_Witness ==
    /\ pc = "derived"
    /\ KeySet(A1) # {}
    /\ \E k \in KeySet(B1) \ KeySet(A1) :
           FirstRowWithKey(M, k)["spend"] = FirstRowWithKey(B1, k)["spend"]

\* C2: when M and S are both non-empty the reconciled output has exactly
\* |only_M| + |only_S| + |common| rows, duplicated keys included.
C2_UnionCompleteness ==
    (Unioned /\ M # <<>> /\ S # <<>>) =>
        Len(full_day_data.rows) =
            Cardinality(KeySet(M) \ KeySet(S))
            + Cardinality(KeySet(S) \ KeySet(M))
            + Cardinality(KeySet(M) \cap KeySet(S))

\* C3: for every key in both M and S the output holds one record, whose
\* numeric columns are M's plus S's and whose other fields are M's.
C3_Additivity ==
    (Unioned /\ M # <<>> /\ S # <<>>) =>
        \A k \in KeySet(M) \cap KeySet(S) :
            LET out == RowsWithKey(full_day_data.rows, k)
                m == FirstRowWithKey(M, k)
            IN  /\ Len(out) = 1
                /\ DOMAIN out[1] = DOMAIN m
                /\ \E j \in 1..Len(S) :
                     /\ S[j]["group_id"] = k
                     /\ \A c \in DOMAIN m :
                            out[1][c] = IF c \in Range(numeric_cols)
                                        THEN m[c] + S[j][c]
                                        ELSE m[c]

C3_Witness ==
    /\ pc = "unioned"
    /\ \E k \in KeySet(M) \cap KeySet(S) :
         /\ FirstRowWithKey(M, k)["spend"] = 1
         /\ FirstRowWithKey(S, k)["spend"] = 2
         /\ FirstRowWithKey(full_day_data.rows, k)["spend"] = 3

\* C4, as stated: no record of M is negative in a numeric column that is
\* not ratio-like.
C4_FloorAllOfM ==
    Derived =>
        \A i \in 1..Len(M) : \A c \in CountColumns : M[i][c] >= 0

\* C4, amended: a record of M whose key has a match in A1, that is one the
\* subtraction was applied to, is never negative in a numeric column that is
\* not ratio-like.
C4_FloorMatched ==
    Derived =>
        \A i \in 1..Len(M) :
            M[i]["group_id"] \in KeySet(A1) =>
                \A c \in CountColumns : M[i][c] >= 0

C4_Witness ==
    /\ pc = "derived"
    /\ \E k \in KeySet(A1) \cap KeySet(B1) :
         /\ LastRowWithKey(B1, k)["spend"] < LastRowWithKey(A1, k)["spend"]
         /\ LastRowWithKey(B1, k)["spend"] > 0
         /\ FirstRowWithKey(M, k)["spend"] = 0

\* C5: for a key in A1 and in B1 the final output holds a record whose
\* count-like value is max(0, B1 - A1) + B2 when the key is in B2, and
\* max(0, B1 - A1) when it is not.
C5_EndToEnd ==
    Unioned =>
        \A k \in KeySet(A1) \cap KeySet(B1) : \A c \in CountColumns :
            \E i \in 1..Len(full_day_data.rows) :
            \E a \in 1..Len(A1) : \E b \in 1..Len(B1) :
                LET derived == IF B1[b][c] - A1[a][c] > 0
                               THEN B1[b][c] - A1[a][c] ELSE 0
                IN  /\ full_day_data.rows[i]["group_id"] = k
                    /\ A1[a]["group_id"] = k
                    /\ B1[b]["group_id"] = k
                    /\ IF k \in KeySet(S)
                       THEN \E j \in 1..Len(S) :
                              /\ S[j]["group_id"] = k
                              /\ full_day_data.rows[i][c] = derived + S[j][c]
                       ELSE full_day_data.rows[i][c] = derived

C5_Witness ==
    /\ pc = "unioned"
    /\ \E k1, k2 \in KeySet(A1) \cap KeySet(B1) :
         /\ k1 \in KeySet(S)
         /\ k2 \notin KeySet(S)
         /\ FirstRowWithKey(A1, k1)["spend"] = 1
         /\ FirstRowWithKey(B1, k1)["spend"] = 2
         /\ FirstRowWithKey(S, k1)["spend"] = 2
         /\ FirstRowWithKey(full_day_data.rows, k1)["spend"] = 3
         /\ FirstRowWithKey(A1, k2)["spend"] = 1
         /\ FirstRowWithKey(B1, k2)["spend"] = 2
         /\ FirstRowWithKey(full_day_data.rows, k2)["spend"] = 1

\* C6: if M is empty the output is S unchanged, if S is empty it is M
\* unchanged, if both are empty it is empty; in none of these cases does the
\* run fail or stop before it returns.
C6_EmptyCases ==
    /\ (Unioned /\ M = <<>>) => full_day_data.rows = S
    /\ (Unioned /\ S = <<>>) => full_day_data.rows = M
    /\ (Unioned /\ M = <<>> /\ S = <<>>) => full_day_data.rows = <<>>
    /\ (M = <<>> \/ S = <<>>) => pc # "error"
    /\ ((M = <<>> \/ S = <<>>) /\ pc \in {"derived", "unioned"}) =>
           ENABLED Next
    /\ (pc = "done" /\ (M = <<>> \/ S = <<>>)) =>
           (returned.rows = <<>>) = (M = <<>> /\ S = <<>>)

C6_Witness ==
    /\ pc = "done"
    /\ M = <<>>
    /\ S # <<>>
    /\ full_day_data.rows = S
    /\ Len(returned.rows) = Len(S)

\* C7: the run never ends in an error because a column is absent from one
\* of the two sheets.
C7_NeverRaises == pc # "error"

EntityText(cell) ==
    IF cell.k = "text" THEN Strip(cell.s) ELSE Digits(cell.n)

SameEntity(r1, r2) ==
    \A i \in 1..Len(grouping_columns) :
        EntityText(r1[grouping_columns[i]]) = EntityText(r2[grouping_columns[i]])

\* C8: a record of table 1 and a record of the combined table whose four
\* identifiers name the same numbers, as numbers or as text of the number
\* with surrounding whitespace, get the same composite key.
C8_KeyDeterminism ==
    pc = "keyed" =>
        \A i \in 1..Len(table1) : \A j \in 1..Len(combined_table) :
            SameEntity(table1[i], combined_table[j]) =>
                table1[i]["group_id"] = combined_table[j]["group_id"]

RequestedInRange ==
    {i \in Range(target_columns.idx) : 0 <= i /\ i < Len(InputColumns)}

\* C9, as stated: the written dataset holds exactly the columns at the
\* requested positions that exist; other positions are ignored; with no
\* valid position all columns are kept.
C9_ExactProjection ==
    (written.exists /\ ~target_columns.none) =>
        Range(written.cols) =
            IF RequestedInRange # {}
            THEN {InputColumns[i + 1] : i \in RequestedInRange}
            ELSE Range(InputColumns)

RequestedBelowCount ==
    {i \in Range(target_columns.idx) : i < Len(InputColumns)}

\* C9, amended: the written dataset holds the columns at the requested
\* positions below the column count (a negative position counting from the
\* end) plus the date column; positions at or above the count are ignored;
\* with no position below the count, or no target_columns, all columns are
\* kept.
C9_ProjectionPlusDate ==
    written.exists =>
        Range(written.cols) =
            IF ~target_columns.none /\ RequestedBelowCount # {}
            THEN {InputColumns[IF i < 0 THEN Len(InputColumns) + i + 1
                               ELSE i + 1] : i \in RequestedBelowCount}
                 \cup {"date"}
            ELSE Range(InputColumns)

C9_Witness ==
    /\ pc = "done"
    /\ written.exists
    /\ target_columns.idx = <<6, MaxIndex>>
    /\ written.cols = <<"spend", "date">>

\* C10: in a written artifact every record's date is the day after
\* second_date, and neither group_id nor clean_date is a column.
C10_DateAndBookkeeping ==
    written.exists =>
        /\ "group_id" \notin Range(written.cols)
        /\ "clean_date" \notin Range(written.cols)
        /\ "date" \in Range(written.cols)
        /\ \A i \in 1..Len(written.rows) :
             /\ DOMAIN written.rows[i] = Range(written.cols)
             /\ written.rows[i]["date"].day = second_dt + 1

C10_Witness ==
    /\ pc = "done"
    /\ written.exists
    /\ target_columns.idx = <<-1>>
    /\ written.cols = <<"roas", "date">>
    /\ Len(written.rows) = 3
    /\ \A i \in 1..Len(written.rows) :
           written.rows[i]["date"].day = second_dt + 1

\* C11: a run's output, as an ordered sequence of records, is the one every
\* other run on the same inputs produces: it is the same for every order in
\* which the set of common keys may be iterated.
C11_OrderIndependent ==
    (Unioned /\ M # <<>> /\ S # <<>>) =>
        \A order \in Perms(KeySet(M) \cap KeySet(S)) :
            full_day_data.rows = UnionRows(M, S, numeric_cols, order)

Occurrences(rows, r) == Cardinality({i \in 1..Len(rows) : rows[i] = r})

\* C12: every record of M whose key is not in S, and every record of S whose
\* key is not in M, is in the output with all of its fields unchanged, as
\* many times as its dataset holds it.
C12_OnlyRowsUnchanged ==
    Unioned =>
        /\ \A i \in 1..Len(M) :
               M[i]["group_id"] \notin KeySet(S) =>
                   Occurrences(full_day_data.rows, M[i]) = Occurrences(M, M[i])
        /\ \A j \in 1..Len(S) :
               S[j]["group_id"] \notin KeySet(M) =>
                   Occurrences(full_day_data.rows, S[j]) = Occurrences(S, S[j])

C12_Witness ==
    /\ pc = "unioned"
    /\ \E i \in 1..Len(M) : \E j \in 1..Len(S) :
         /\ M[i]["group_id"] \notin KeySet(S)
         /\ S[j]["group_id"] \notin KeySet(M)
         /\ full_day_data.rows = <<M[i], S[j]>>
         /\ S[j]["ad_name"] = <<"combined", 2>>

FirstSeenDerived(c, b, a) ==
    IF c \in CountColumns /\ b[c] - a[c] < 0 THEN 0 ELSE b[c] - a[c]

\* C13: duplicate keys in a partition do not make the run fail, and every
\* by-key lookup takes the first row of the key: the derived record of a key
\* in A1 and B1 has the metadata of B1's first row and the numeric values
\* computed from the first rows of B1 and A1, and the summed record of a
\* common key adds the values of S's first row.
C13_FirstSeenWins ==
    /\ pc # "error"
    /\ Derived =>
           \A k \in KeySet(A1) \cap KeySet(B1) :
               LET m == FirstRowWithKey(M, k)
                   a == FirstRowWithKey(A1, k)
                   b == FirstRowWithKey(B1, k)
               IN  /\ m["ad_name"] = b["ad_name"]
                   /\ \A c \in Range(numeric_cols) :
                          m[c] = FirstSeenDerived(c, b, a)
    /\ (Unioned /\ M # <<>> /\ S # <<>>) =>
           \A k \in KeySet(M) \cap KeySet(S) :
               \A c \in Range(numeric_cols) :
                   FirstRowWithKey(full_day_data.rows, k)[c] =
                       FirstRowWithKey(M, k)[c] + FirstRowWithKey(S, k)[c]

NormalizedFields(row) ==
    [i \in 1..Len(grouping_columns) |->
        Strip(AsStr(row[grouping_columns[i]]))]

\* C14: a record of table 1 and a record of the combined table get the same
\* composite key only if their four normalized identifier fields are
\* pairwise equal, also when an identifier contains the separator '_'.
C14_KeyInjective ==
    pc = "keyed" =>
        \A i \in 1..Len(table1) : \A j \in 1..Len(combined_table) :
            table1[i]["group_id"] = combined_table[j]["group_id"] =>
                NormalizedFields(table1[i]) = NormalizedFields(combined_table[j])

\* C15, as stated: the returned dataset and the written artifact of a run
\* have the same set of columns, and their date fields carry the same value.
C15_ReturnedEqualsWritten ==
    written.exists =>
        /\ Range(returned.cols) = Range(written.cols)
        /\ \A i \in 1..Len(written.rows) :
               "date" \in Range(returned.cols) =>
                   returned.rows[i]["date"] = written.rows[i]["date"]

PlainColumns == {"ad_name", "spend", "roas"}

\* C15, amended: the returned dataset and the written artifact hold the same
\* records in the same order and agree on every descriptive and metric
\* column both contain; with no target_columns the returned columns are the
\* written ones plus group_id and clean_date; the date is the day after
\* second_date in the artifact and second_date in the returned dataset.
C15_ReturnedVersusWritten ==
    written.exists =>
        /\ Len(returned.rows) = Len(written.rows)
        /\ target_columns.none =>
               Range(returned.cols) =
                   Range(written.cols) \cup {"group_id", "clean_date"}
        /\ \A i \in 1..Len(written.rows) :
             /\ \A c \in PlainColumns \cap Range(returned.cols)
                                      \cap Range(written.cols) :
                    returned.rows[i][c] = written.rows[i][c]
             /\ written.rows[i]["date"].day = second_dt + 1
             /\ "date" \in Range(returned.cols) =>
                    returned.rows[i]["date"].day = second_dt

C15_Witness ==
    /\ pc = "done"
    /\ written.exists
    /\ target_columns.idx = <<8>>
    /\ returned.cols = <<"group_id">>
    /\ Len(written.cols) = Len(InputColumns)
    /\ Len(returned.rows) = 2

====
